---- MODULE Spec2Model ----
(***************************************************************************)
(* Model of hwilib/trezori.py: TxAPIPSBT.get_tx and TrezorClient.sign_tx.  *)
(* A PSBT is translated into the request of the Trezor signing RPC, the    *)
(* previous transactions are resolved from the PSBT while the RPC runs,    *)
(* and the returned signatures are merged back into the PSBT.              *)
(*                                                                         *)
(* Optional values (None in the source) are sequences of length 0 or 1.    *)
(* Byte strings are sequences of numbers; a 256-bit hash is modelled with  *)
(* two bytes, which is enough to tell the two byte orders apart.           *)
(***************************************************************************)
EXTENDS Integers, Sequences, FiniteSets, TLC

\* Largest number of inputs of a PSBT.
MaxInputs == 2
\* Largest number of outputs of a PSBT.
MaxOutputs == 1

----------------------------------------------------------------------------
(* Data the caller and the device supply *)

Fingerprints == {"fpA", "fpB"}

NoError == "none"
ErrMultisig == "TypeError: Cannot sign multisig yet"
ErrNoKey == "TypeError: All inputs must have a key for this device"
ErrOutput == "TypeError: Output is not an address"
ErrIndex == "IndexError: list index out of range"
ErrTxNotFound == "ValueError: TX not found in PSBT"
ErrUnbound == "UnboundLocalError: sig referenced before assignment"
ErrRemove == "ValueError: list.remove(x): x not in list"
ErrDevice == "device error"

\* amount of a descriptor that never had one assigned
NoAmount == -1

Reverse(s) == [i \in 1..Len(s) |-> s[Len(s) + 1 - i]]

\* little-endian serialization of a hash and its inverse
ser_uint256(u) == <<u % 256, (u \div 256) % 256>>
uint256_from_str(s) == s[1] + 256 * s[2]

\* hex digits of a byte string and back
hexlify(b) == [i \in 1..(2 * Len(b)) |->
                 IF i % 2 = 1 THEN b[(i + 1) \div 2] \div 16 ELSE b[i \div 2] % 16]
unhexlify(h) == [i \in 1..(Len(h) \div 2) |-> 16 * h[2 * i - 1] + h[2 * i]]

\* a previous transaction embedded in the PSBT, with hash h and the given outputs
PrevTx(h, vout) ==
    [sha256 |-> h, nVersion |-> 1, nLockTime |-> 0,
     vin |-> <<[prevout |-> [hash |-> 513, n |-> 0], scriptSig |-> <<>>, nSequence |-> 7]>>,
     vout |-> vout]

TxOut(kind, value) == [nValue |-> value, scriptPubKey |-> [kind |-> kind, payload |-> <<9>>]]

KeyA == [pubkey |-> "pkA", value |-> <<"fpA", 44, 0>>]
KeyB == [pubkey |-> "pkB", value |-> <<"fpB", 44, 1>>]

EmptyDict == [k \in {} |-> <<>>]

PSBTInput(nw, w, keys) ==
    [non_witness_utxo |-> nw, witness_utxo |-> w, hd_keypaths |-> keys,
     partial_sigs |-> EmptyDict]

LegacyTx == PrevTx(1, <<TxOut("p2pkh", 5)>>)
EmptyTx == PrevTx(1, <<>>)

\* The inputs a PSBT is made of: every way of carrying the spent output with
\* one key, and the key sets that differ from it.
InputKinds ==
    { PSBTInput(<<LegacyTx>>, <<>>, <<KeyA>>),
      PSBTInput(<<LegacyTx>>, <<>>, <<KeyB>>),
      PSBTInput(<<>>, <<TxOut("p2sh", 7)>>, <<KeyA>>),
      PSBTInput(<<>>, <<TxOut("witness", 7)>>, <<KeyB>>),
      PSBTInput(<<LegacyTx>>, <<TxOut("witness", 7)>>, <<KeyA>>),
      PSBTInput(<<>>, <<>>, <<KeyA>>),
      PSBTInput(<<>>, <<TxOut("witness", 7)>>, <<>>),
      PSBTInput(<<LegacyTx>>, <<>>, <<KeyA, KeyB>>),
      PSBTInput(<<EmptyTx>>, <<>>, <<KeyA>>) }

OutputKinds == { TxOut("p2pkh", 3), TxOut("p2sh", 3), TxOut("witness", 3), TxOut("other", 3) }

TxIn == [prevout |-> [hash |-> 1, n |-> 0], nSequence |-> 7]

SeqsUpTo(S, n) == UNION { [1..k -> S] : k \in 0..n }

\* the PSBTs handed to sign_tx: as many inputs as the transaction has
PSBTs ==
    { [inputs |-> ins,
       tx |-> [vin |-> [i \in 1..Len(ins) |-> TxIn], vout |-> outs,
               nVersion |-> 2, nLockTime |-> 0]] :
        ins \in SeqsUpTo(InputKinds, MaxInputs), outs \in SeqsUpTo(OutputKinds, MaxOutputs) }

\* the hashes the signing RPC asks for, in display byte order
TxHashes == { hexlify(Reverse(ser_uint256(1))), hexlify(Reverse(ser_uint256(256))) }

\* the signature lists the device may answer with for n inputs: up to one too
\* many, all different or all the same
DeviceAnswers(n) ==
    { [i \in 1..k |-> <<10 * i>>] : k \in 0..(n + 1) } \cup
    { [i \in 1..k |-> <<10>>] : k \in 0..(n + 1) }

----------------------------------------------------------------------------
(* The state                                                               *)
(*   tx          the PSBT handed to sign_tx, mutated in place (line 171)    *)
(*   device_fp   fingerprint of the device's master key (lines 80-81)       *)
(*   handle      the transport opened by the constructor (line 56)          *)
(*   run         whether sign_tx runs for the first or the second time      *)
(*   pc          where the call stands                                      *)
(*   err         the exception the call ended with                          *)
(*   master_fp   the local master_fp (line 81)                              *)
(*   before      tx.inputs as they were when the call was entered           *)
(*   request     the inputs and outputs passed to client.sign_tx            *)
(*   rpc_issued  client.sign_tx was invoked in this call (lines 161, 163)   *)
(*   txhash      the hash get_tx was last asked for (line 23)               *)
(*   prev_tx     what get_tx last returned (line 47)                        *)
(*   signed_tx   the signatures client.sign_tx returned (line 165)          *)
(*   result      what sign_tx returned (line 175)                           *)
(*   memo        the requests the device signed, with its answers           *)
(*   first       the inputs and the request of the first successful run     *)
VARIABLES tx, device_fp, handle, run, pc, err, master_fp, before, request,
          rpc_issued, txhash, prev_tx, signed_tx, result, memo, first

vars == <<tx, device_fp, handle, run, pc, err, master_fp, before, request,
          rpc_issued, txhash, prev_tx, signed_tx, result, memo, first>>

\* self.is_testnet as the constructor leaves it
is_testnet == FALSE

----------------------------------------------------------------------------
(* TxAPIPSBT.get_tx *)

requested_hash_noreverse(h) == uint256_from_str(unhexlify(h))
requested_hash(h) == uint256_from_str(Reverse(unhexlify(h)))

get_tx(psbt, h) ==
    LET hits == { i \in 1..Len(psbt.inputs) :
                    /\ psbt.inputs[i].non_witness_utxo # <<>>
                    /\ psbt.inputs[i].non_witness_utxo[1].sha256 = requested_hash(h) }
    IN IF hits = {}
       THEN [err |-> ErrTxNotFound, t |-> <<>>]
       ELSE LET last == CHOOSE i \in hits : \A j \in hits : j <= i
                ptx == psbt.inputs[last].non_witness_utxo[1]
            IN [err |-> NoError,
                t |-> <<[version |-> ptx.nVersion,
                         lock_time |-> ptx.nLockTime,
                         inputs |-> [k \in 1..Len(ptx.vin) |->
                             [prev_hash |-> Reverse(ser_uint256(ptx.vin[k].prevout.hash)),
                              prev_index |-> ptx.vin[k].prevout.n,
                              script_sig |-> ptx.vin[k].scriptSig,
                              sequence |-> ptx.vin[k].nSequence]],
                         bin_outputs |-> [k \in 1..Len(ptx.vout) |->
                             [amount |-> ptx.vout[k].nValue,
                              script_pubkey |-> ptx.vout[k].scriptPubKey]]]>>]

----------------------------------------------------------------------------
(* sign_tx: building the request *)

script_type_of(psbt_in) ==
    IF psbt_in.non_witness_utxo # <<>> THEN "SPENDADDRESS"
    ELSE IF psbt_in.witness_utxo # <<>>
         THEN IF psbt_in.witness_utxo[1].scriptPubKey.kind = "p2sh"
              THEN "SPENDP2SHWITNESS" ELSE "SPENDWITNESS"
         ELSE "UNSET"

address_n_any(psbt_in, fp) ==
    IF Len(psbt_in.hd_keypaths) = 1 THEN Tail(psbt_in.hd_keypaths[1].value) ELSE <<>>
address_n_of(psbt_in, fp) ==
    IF Len(psbt_in.hd_keypaths) = 1 /\ Head(psbt_in.hd_keypaths[1].value) = fp
    THEN Tail(psbt_in.hd_keypaths[1].value)
    ELSE <<>>

key_error_lax(psbt_in) ==
    IF Len(psbt_in.hd_keypaths) >= 1 THEN NoError ELSE ErrNoKey
key_error(psbt_in) ==
    IF Len(psbt_in.hd_keypaths) = 1 THEN NoError
    ELSE IF Len(psbt_in.hd_keypaths) > 1 THEN ErrMultisig
    ELSE ErrNoKey

amount_of(psbt_in, txin) ==
    IF psbt_in.non_witness_utxo # <<>>
    THEN IF txin.prevout.n + 1 \in DOMAIN psbt_in.non_witness_utxo[1].vout
         THEN [err |-> NoError, amount |-> psbt_in.non_witness_utxo[1].vout[txin.prevout.n + 1].nValue]
         ELSE [err |-> ErrIndex, amount |-> NoAmount]
    ELSE IF psbt_in.witness_utxo # <<>>
         THEN [err |-> NoError, amount |-> psbt_in.witness_utxo[1].nValue]
         ELSE [err |-> NoError, amount |-> NoAmount]

\* one pass of the input loop: the first statement that raises decides the error
BuildInput(psbt_in, txin, fp) ==
    LET kerr == key_error(psbt_in)
        amt == amount_of(psbt_in, txin)
    IN [err |-> IF kerr # NoError THEN kerr ELSE amt.err,
        desc |-> [prev_hash |-> Reverse(ser_uint256(txin.prevout.hash)),
                  prev_index |-> txin.prevout.n,
                  sequence |-> txin.nSequence,
                  script_type |-> script_type_of(psbt_in),
                  address_n |-> address_n_of(psbt_in, fp),
                  amount |-> amt.amount]]

output_address_lax(out) ==
    [err |-> NoError, address |-> <<"none">>]
output_address(out) ==
    IF out.scriptPubKey.kind = "p2pkh"
    THEN [err |-> NoError,
          address |-> <<"base58check", IF is_testnet THEN 111 ELSE 0, out.scriptPubKey.payload>>]
    ELSE IF out.scriptPubKey.kind = "p2sh"
    THEN [err |-> NoError,
          address |-> <<"base58check", IF is_testnet THEN 196 ELSE 5, out.scriptPubKey.payload>>]
    ELSE IF out.scriptPubKey.kind = "witness"
    THEN [err |-> NoError,
          address |-> <<"bech32", IF is_testnet THEN "tb" ELSE "bc", out.scriptPubKey.payload>>]
    ELSE [err |-> ErrOutput, address |-> <<>>]

BuildOutput(out) ==
    [err |-> output_address(out).err,
     desc |-> [amount |-> out.nValue, script_type |-> "PAYTOADDRESS",
               address |-> output_address(out).address]]

\* the error of the first loop pass that raises, NoError when none does
FirstError(errs) ==
    IF \A i \in 1..Len(errs) : errs[i] = NoError THEN NoError
    ELSE errs[CHOOSE i \in 1..Len(errs) :
                /\ errs[i] # NoError
                /\ \A j \in 1..(i - 1) : errs[j] = NoError]

\* lines 83-156: the input loop, then the output loop
BuildRequest(psbt, fp) ==
    LET ins == [i \in 1..Len(psbt.inputs) |-> BuildInput(psbt.inputs[i], psbt.tx.vin[i], fp)]
        outs == [o \in 1..Len(psbt.tx.vout) |-> BuildOutput(psbt.tx.vout[o])]
        ierr == FirstError([i \in 1..Len(ins) |-> ins[i].err])
        oerr == FirstError([o \in 1..Len(outs) |-> outs[o].err])
    IN [err |-> IF ierr # NoError THEN ierr ELSE oerr,
        req |-> [coin |-> IF is_testnet THEN "Testnet" ELSE "Bitcoin",
                 inputs |-> [i \in 1..Len(ins) |-> ins[i].desc],
                 outputs |-> [o \in 1..Len(outs) |-> outs[o].desc],
                 version |-> psbt.tx.nVersion,
                 lock_time |-> psbt.tx.nLockTime]]

----------------------------------------------------------------------------
(* sign_tx: merging the signatures *)

DictSetAppend(d, k, v) ==
    [x \in DOMAIN d \cup {k} |-> IF x = k THEN (IF k \in DOMAIN d THEN d[k] \o v ELSE v) ELSE d[x]]
DictSet(d, k, v) ==
    [x \in DOMAIN d \cup {k} |-> IF x = k THEN v ELSE d[x]]

Contains(s, x) == \E i \in 1..Len(s) : s[i] = x

\* list.remove(x): drops the first element equal to x
list_remove(s, x) ==
    LET at == CHOOSE i \in 1..Len(s) : s[i] = x /\ \A j \in 1..(i - 1) : s[j] # x
    IN [i \in 1..(Len(s) - 1) |-> IF i < at THEN s[i] ELSE s[i + 1]]

\* the first pair of zip(hd_keypaths.keys(), signatures)
zip_first_back(keys, signatures) == [pubkey |-> keys[1], sig |-> signatures[Len(signatures)]]
zip_first(keys, signatures) == [pubkey |-> keys[1], sig |-> signatures[1]]

\* lines 166-173 from input i on; sig is the loop variable left by the
\* passes before (<<>> while it was never bound)
RECURSIVE MergeLoop(_, _, _, _, _)
MergeLoop(inputs, i, signatures, sig, fp) ==
    IF i > Len(inputs)
    THEN [inputs |-> inputs, err |-> NoError]
    ELSE LET psbt_in == inputs[i]
             paired == Len(psbt_in.hd_keypaths) > 0 /\ Len(signatures) > 0
             pair == zip_first(psbt_in.hd_keypaths, signatures)
             sig1 == IF paired THEN <<pair.sig>> ELSE sig
             in1 == IF paired /\ Head(pair.pubkey.value) = fp
                    THEN [psbt_in EXCEPT !.partial_sigs =
                             DictSet(@, pair.pubkey.pubkey, Append(pair.sig, 1))]
                    ELSE psbt_in
             inputs1 == [inputs EXCEPT ![i] = in1]
         IN IF sig1 = <<>> THEN [inputs |-> inputs1, err |-> ErrUnbound]
            ELSE IF ~Contains(signatures, sig1[1]) THEN [inputs |-> inputs1, err |-> ErrRemove]
            ELSE MergeLoop(inputs1, i + 1, list_remove(signatures, sig1[1]), sig1, fp)

serialize(psbt) == [i \in 1..Len(psbt.inputs) |-> psbt.inputs[i].partial_sigs]

----------------------------------------------------------------------------
(* The state machine *)

Init ==
    /\ tx \in PSBTs
    /\ device_fp \in Fingerprints
    /\ handle = "open"
    /\ run = "first"
    /\ pc = "Idle"
    /\ err = NoError
    /\ master_fp = "none"
    /\ before = tx.inputs
    /\ request = <<>>
    /\ rpc_issued = FALSE
    /\ txhash = <<>>
    /\ prev_tx = <<>>
    /\ signed_tx = <<>>
    /\ result = <<>>
    /\ memo = {}
    /\ first = <<>>

\* sign_tx is entered (a first time, or again on the PSBT it returned)
Entered ==
    /\ handle = "open"
    /\ pc = "Idle" \/ (pc = "Serialized" /\ run = "first")
    /\ run' = IF pc = "Idle" THEN run ELSE "second"
    /\ before' = tx.inputs
    /\ request' = <<>>
    /\ rpc_issued' = FALSE
    /\ txhash' = <<>>
    /\ prev_tx' = <<>>
    /\ signed_tx' = <<>>
    /\ result' = <<>>

\* lines 80-81: the device answers get_public_node
GetMasterFingerprint ==
    /\ Entered
    /\ master_fp' = device_fp
    /\ pc' = "FingerprintDerived"
    /\ err' = NoError
    /\ UNCHANGED <<tx, device_fp, handle, memo, first>>

\* line 80: get_public_node raises
GetPublicNodeFails ==
    /\ Entered
    /\ master_fp' = "none"
    /\ pc' = "Failed"
    /\ err' = ErrDevice
    /\ UNCHANGED <<tx, device_fp, handle, memo, first>>

\* lines 83-163: the request is built and the signing RPC is issued
Build ==
    /\ pc = "FingerprintDerived"
    /\ LET b == BuildRequest(tx, master_fp)
       IN IF b.err # NoError
          THEN /\ pc' = "Failed"
               /\ err' = b.err
               /\ UNCHANGED <<request, rpc_issued>>
          ELSE /\ pc' = "AwaitingDevice"
               /\ request' = <<b.req>>
               /\ rpc_issued' = TRUE
               /\ UNCHANGED err
    /\ UNCHANGED <<tx, device_fp, handle, run, master_fp, before, txhash, prev_tx,
                   signed_tx, result, memo, first>>

\* lines 23-47: the signing RPC asks for a previous transaction
GetTx ==
    /\ pc = "AwaitingDevice"
    /\ \E h \in TxHashes :
         LET r == get_tx(tx, h)
         IN /\ txhash' = <<h>>
            /\ prev_tx' = r.t
            /\ IF r.err # NoError
               THEN pc' = "Failed" /\ err' = r.err
               ELSE UNCHANGED <<pc, err>>
    /\ UNCHANGED <<tx, device_fp, handle, run, master_fp, before, request, rpc_issued,
                   signed_tx, result, memo, first>>

\* lines 160-163: the signing RPC raises
SignRpcFails ==
    /\ pc = "AwaitingDevice"
    /\ pc' = "Failed"
    /\ err' = ErrDevice
    /\ UNCHANGED <<tx, device_fp, handle, run, master_fp, before, request, rpc_issued,
                   txhash, prev_tx, signed_tx, result, memo, first>>

\* lines 160-175: the signing RPC returns, the signatures are merged and the
\* PSBT is serialized. The device signs deterministically: the same request
\* gets the same signatures.
SignRpcReturns ==
    /\ pc = "AwaitingDevice"
    /\ \E sigs \in DeviceAnswers(Len(tx.inputs)) :
         /\ \A m \in memo : m.request = request[1] => sigs = m.signatures
         /\ memo' = memo \cup {[request |-> request[1], signatures |-> sigs]}
         /\ signed_tx' = <<sigs>>
         /\ LET m == MergeLoop(tx.inputs, 1, sigs, <<>>, master_fp)
                merged == [tx EXCEPT !.inputs = m.inputs]
            IN /\ tx' = merged
               /\ IF m.err # NoError
                  THEN /\ pc' = "Failed"
                       /\ err' = m.err
                       /\ UNCHANGED <<result, first>>
                  ELSE /\ pc' = "Serialized"
                       /\ result' = <<[psbt |-> serialize(merged)]>>
                       /\ first' = IF run = "first"
                                   THEN <<[inputs |-> m.inputs, request |-> request[1]]>>
                                   ELSE first
                       /\ UNCHANGED err
    /\ txhash' = <<>>
    /\ prev_tx' = <<>>
    /\ UNCHANGED <<device_fp, handle, run, master_fp, before, request, rpc_issued>>

\* lines 199-200: the caller closes the client
Close ==
    /\ pc \in {"Serialized", "Failed"}
    /\ handle = "open"
    /\ handle' = "closed"
    /\ UNCHANGED <<tx, device_fp, run, pc, err, master_fp, before, request, rpc_issued,
                   txhash, prev_tx, signed_tx, result, memo, first>>

Next ==
    \/ GetMasterFingerprint
    \/ GetPublicNodeFails
    \/ Build
    \/ GetTx
    \/ SignRpcFails
    \/ SignRpcReturns
    \/ Close

Spec == Init /\ [][Next]_vars

----------------------------------------------------------------------------
(* Properties *)

\* the input holds exactly one key and that key's stored fingerprint is fp
Owned(psbt_in, fp) ==
    /\ Len(psbt_in.hd_keypaths) = 1
    /\ psbt_in.hd_keypaths[1].value[1] = fp

\* the display-order hex hash under which a previous transaction is asked for
DisplayHash(ptx) == hexlify(Reverse(ser_uint256(ptx.sha256)))

HasPrevTx(inputs, h) ==
    \E i \in 1..Len(inputs) :
        /\ inputs[i].non_witness_utxo # <<>>
        /\ DisplayHash(inputs[i].non_witness_utxo[1]) = h

BuilderErrors == {ErrMultisig, ErrNoKey, ErrOutput, ErrIndex}
MergeErrors == {ErrUnbound, ErrRemove}

\* C1: an input descriptor of the request carries a derivation path only if
\* the input has exactly one key and that key's stored fingerprint equals the
\* master fingerprint read from the device at the start of the call.
C1_PathOnlyForOwnKey ==
    request # <<>> =>
        /\ master_fp = device_fp
        /\ Len(request[1].inputs) = Len(tx.inputs)
        /\ \A i \in 1..Len(tx.inputs) :
              request[1].inputs[i].address_n # <<>> => Owned(tx.inputs[i], master_fp)

\* C1 witness: a request with one input that got its path and one single-key
\* input of another fingerprint that did not.
C1_Witness ==
    /\ request # <<>>
    /\ \E i, j \in 1..Len(tx.inputs) :
          /\ request[1].inputs[i].address_n = <<44, 0>>
          /\ Len(tx.inputs[j].hd_keypaths) = 1
          /\ ~Owned(tx.inputs[j], master_fp)
          /\ request[1].inputs[j].address_n = <<>>

\* C2: whenever the device returned a number of signatures different from the
\* number of inputs of the request, the call has failed with the count
\* mismatch error and returned no PSBT.
C2_CountMismatchIsFatal ==
    (signed_tx # <<>> /\ Len(signed_tx[1]) # Len(before)) =>
        /\ pc = "Failed"
        /\ err \in MergeErrors
        /\ result = <<>>

\* C3: whenever sign_tx has failed, the inputs of the PSBT are what they were
\* when the call was entered and nothing was returned.
C3_FailureLeavesPsbtUnchanged ==
    pc = "Failed" => (tx.inputs = before /\ result = <<>>)

\* the number of owned inputs among the first i
OwnedUpTo(inputs, i, fp) == Cardinality({k \in 1..i : Owned(inputs[k], fp)})

\* C4 as stated: after a successful merge the j-th owned input holds the j-th
\* returned signature (with 0x01 appended) and the other inputs are untouched.
C4_OwnedInputsShareTheList ==
    pc = "Serialized" =>
        \A i \in 1..Len(tx.inputs) :
            IF Owned(before[i], master_fp)
            THEN /\ OwnedUpTo(before, i, master_fp) <= Len(signed_tx[1])
                 /\ tx.inputs[i].partial_sigs[before[i].hd_keypaths[1].pubkey]
                      = signed_tx[1][OwnedUpTo(before, i, master_fp)] \o <<1>>
            ELSE tx.inputs[i].partial_sigs = before[i].partial_sigs

\* C4 amended: once the device has answered, the i-th input is paired with the
\* i-th returned signature whether it is owned or not: an owned input holds
\* that signature with 0x01 appended under its public key, every other entry
\* and every other input is as before, and an input beyond the end of the
\* list is as before.
C4_InputTakesSignatureOfItsPosition ==
    signed_tx # <<>> =>
        /\ Len(tx.inputs) = Len(before)
        /\ \A i \in 1..Len(tx.inputs) :
              IF Owned(before[i], master_fp) /\ i <= Len(signed_tx[1])
              THEN LET pk == before[i].hd_keypaths[1].pubkey
                   IN /\ DOMAIN tx.inputs[i].partial_sigs
                           = DOMAIN before[i].partial_sigs \cup {pk}
                      /\ tx.inputs[i].partial_sigs[pk] = signed_tx[1][i] \o <<1>>
                      /\ \A k \in DOMAIN before[i].partial_sigs \ {pk} :
                            tx.inputs[i].partial_sigs[k] = before[i].partial_sigs[k]
              ELSE tx.inputs[i].partial_sigs = before[i].partial_sigs

\* C4 witness: an owned input behind an input of another fingerprint holds the
\* second of two different signatures.
C4_Witness ==
    /\ pc = "Serialized"
    /\ run = "first"
    /\ Len(tx.inputs) = 2
    /\ signed_tx[1] = <<(<<10>>), (<<20>>)>>
    /\ ~Owned(tx.inputs[1], master_fp)
    /\ Owned(tx.inputs[2], master_fp)
    /\ tx.inputs[1].partial_sigs = EmptyDict
    /\ tx.inputs[2].partial_sigs[tx.inputs[2].hd_keypaths[1].pubkey] = <<20, 1>>

\* C5 as stated: once the fingerprint is derived and the builder has run, any
\* input with more than one key has made the call fail with the multisig
\* error and any input with no key with the missing-key error.
C5_AnyOffendingInputDecides ==
    (master_fp # "none" /\ pc \notin {"Idle", "FingerprintDerived"}) =>
        \A i \in 1..Len(tx.inputs) :
            /\ Len(tx.inputs[i].hd_keypaths) > 1 => (pc = "Failed" /\ err = ErrMultisig)
            /\ Len(tx.inputs[i].hd_keypaths) = 0 => (pc = "Failed" /\ err = ErrNoKey)

\* the inputs at which the input loop raises
Stops(psbt) ==
    { i \in 1..Len(psbt.inputs) :
        \/ Len(psbt.inputs[i].hd_keypaths) # 1
        \/ /\ psbt.inputs[i].non_witness_utxo # <<>>
           /\ Len(psbt.inputs[i].non_witness_utxo[1].vout) <= psbt.tx.vin[i].prevout.n }

\* C5 amended: once the fingerprint is derived and the builder has run, the
\* call has failed before the signing RPC with the error of the first input,
\* in PSBT order, that stops the builder: the multisig error if it has more
\* than one key, the missing-key error if it has none.
C5_FirstOffendingInputDecides ==
    (master_fp # "none" /\ pc \notin {"Idle", "FingerprintDerived"} /\ Stops(tx) # {}) =>
        LET f == CHOOSE i \in Stops(tx) : \A j \in Stops(tx) : i <= j
        IN /\ pc = "Failed"
           /\ ~rpc_issued
           /\ tx.inputs = before
           /\ Len(tx.inputs[f].hd_keypaths) > 1 => err = ErrMultisig
           /\ Len(tx.inputs[f].hd_keypaths) = 0 => err = ErrNoKey
           /\ Len(tx.inputs[f].hd_keypaths) = 1 => err = ErrIndex

\* C5 witness: a multisig input in second place, behind a single-key input of
\* another fingerprint, has failed the call with the multisig error.
C5_Witness ==
    /\ pc = "Failed"
    /\ err = ErrMultisig
    /\ Len(tx.inputs) = 2
    /\ Len(tx.inputs[1].hd_keypaths) = 1
    /\ ~Owned(tx.inputs[1], master_fp)
    /\ Len(tx.inputs[2].hd_keypaths) = 2

C7_GetTxFindsOnlyEmbeddedTx ==
    /\ prev_tx # <<>> =>
          /\ txhash # <<>>
          /\ HasPrevTx(tx.inputs, txhash[1])
          /\ err # ErrTxNotFound
    /\ (txhash # <<>> /\ ~HasPrevTx(tx.inputs, txhash[1])) =>
          /\ prev_tx = <<>>
          /\ pc = "Failed"
          /\ err = ErrTxNotFound
    /\ err = ErrTxNotFound =>
          /\ pc = "Failed"
          /\ rpc_issued
          /\ txhash # <<>>
          /\ ~HasPrevTx(tx.inputs, txhash[1])
          /\ signed_tx = <<>>
          /\ tx.inputs = before
          /\ result = <<>>

\* C7 witness: the hash asked for is not the hash of the legacy transaction
\* an input carries, and the call has failed.
C7_Witness ==
    /\ pc = "Failed"
    /\ err = ErrTxNotFound
    /\ \E i \in 1..Len(tx.inputs) : tx.inputs[i].non_witness_utxo # <<>>
    /\ \E i \in 1..Len(tx.inputs) : tx.inputs[i].non_witness_utxo = <<>>

\* C8: every input of a built request has its script type by the rule
\* legacy / wrapped-segwit / native-segwit, and no request is built from an
\* input that has neither UTXO field.
C8_ScriptTypeOrError ==
    request # <<>> =>
        \A i \in 1..Len(tx.inputs) :
            LET nw == tx.inputs[i].non_witness_utxo
                w == tx.inputs[i].witness_utxo
                t == request[1].inputs[i].script_type
            IN /\ nw # <<>> => t = "SPENDADDRESS"
               /\ (nw = <<>> /\ w # <<>> /\ w[1].scriptPubKey.kind = "p2sh")
                     => t = "SPENDP2SHWITNESS"
               /\ (nw = <<>> /\ w # <<>> /\ w[1].scriptPubKey.kind # "p2sh")
                     => t = "SPENDWITNESS"
               /\ nw # <<>> \/ w # <<>>

\* C9: during and after a second run on the PSBT a first run returned, every
\* input's partial_sigs map equals what the first run left, and the request
\* built is the request of the first run.
C9_SecondRunChangesNothing ==
    run = "second" =>
        /\ first # <<>>
        /\ Len(tx.inputs) = Len(first[1].inputs)
        /\ \A i \in 1..Len(tx.inputs) :
              tx.inputs[i].partial_sigs = first[1].inputs[i].partial_sigs
        /\ request # <<>> => request[1] = first[1].request

\* C9 witness: a second run has returned a PSBT holding a partial signature.
C9_Witness ==
    /\ run = "second"
    /\ pc = "Serialized"
    /\ \E i \in 1..Len(tx.inputs) : DOMAIN tx.inputs[i].partial_sigs # {}

\* C10: whenever sign_tx has ended, by return or by error, the device handle
\* is closed.
C10_HandleClosedOnExit ==
    pc \in {"Serialized", "Failed"} => handle = "closed"

====
